---- MODULE Spec2Model ----
(***************************************************************************)
(* Model of the arena allocator of libptables (src/mem.c): the block       *)
(* cache (an intrusive doubly linked list of blocks sorted by descending   *)
(* avail), block provisioning, and the entry points mem_init / mem_alloc.  *)
(*                                                                         *)
(* Pointers to blocks are block numbers 1..Len(blk); NULL is 0.            *)
(* size_t values are kept modulo 2^64 by their representative nearest to   *)
(* zero: a negative integer v stands for 2^64 + v.  Additions and          *)
(* subtractions are then the integer ones; comparisons go through ULt.     *)
(* The size create_block asks of the backend is the one size_t that can    *)
(* lie 2^31 or more away from zero; it is kept as the four 16-bit limbs of *)
(* its 64 bits, most significant first (SizeT).                            *)
(***************************************************************************)
EXTENDS Integers, Sequences, FiniteSets, TLC

(***************************************************************************)
(* Program constants.                                                      *)
(***************************************************************************)
MEM_BLOCK_SIZE == 4096
MEM_BLOCK_OVERHEAD == 32
NULL == 0
\* sizeof(struct mem_block): buf, used, avail, prev, next on an LP64 target
SizeofMemBlock == 40
\* sizeof(ptab_t): the arena context that lives at the start of the root block
SizeofPtab == 96
\* the widest shift of MEM_BLOCK_SIZE (an int, 2^12) that still fits an int
MaxIntShift == 18
\* the width of int: the shift instruction takes its count modulo this
IntBits == 32
\* one limb of a size_t holds 16 bits
LimbBase == 65536

(***************************************************************************)
(* Bounds of the exploration.                                              *)
(***************************************************************************)
\* mem_alloc calls on a live arena explored by Spec
MaxAllocs == 4
\* mem_alloc calls on a live arena explored by SpecGrow
MaxGrowCalls == 20
\* mem_init calls explored (each makes one backend acquire, which may fail)
MaxInitFails == 1

VARIABLES
    status,     \* "uninit", "live", or "aborted" (an assertion stopped the process)
    ndebug,     \* the build: TRUE when assert() is compiled out
    blk,        \* the blocks ever created, by block number
    cache,      \* struct mem_block_cache of the arena
    allocs,     \* the ranges returned by successful mem_alloc calls, in order
    ninit,      \* number of mem_init calls (each makes one backend acquire)
    nacq,       \* number of backend acquire calls made by mem_alloc
    ncalls,     \* number of mem_alloc calls made on the live arena
    sumreq,     \* sum of the sizes requested by those calls, counted up to
                \* one byte past what the root block can hold
    last        \* what the last call did

vars == <<status, ndebug, blk, cache, allocs, ninit, nacq, ncalls, sumreq, last>>

(***************************************************************************)
(* size_t comparisons (unsigned).                                          *)
(***************************************************************************)
ULt(a, b) == IF (a >= 0) = (b >= 0) THEN a < b ELSE b < 0
UGt(a, b) == ULt(b, a)
UGe(a, b) == ~ULt(a, b)

RECURSIVE Pow2(_)
Pow2(n) == IF n = 0 THEN 1 ELSE 2 * Pow2(n - 1)

\* MEM_BLOCK_SIZE << n, where the int result is defined
Shl(n) == MEM_BLOCK_SIZE * Pow2(n)

\* MEM_BLOCK_SIZE << n once the shift overflows int (undefined behaviour),
\* as the x86-64 builds compute it, with and without optimisation: the
\* shift takes its count modulo the width of int and keeps 32 bits, read
\* as an int (INT_MIN for a count of 19, 0 for 20..31)
ShlOverflow(n) ==
    LET k == n % IntBits
    IN  IF k <= MaxIntShift THEN Shl(k)
        ELSE IF k = MaxIntShift + 1 THEN 0 - Shl(MaxIntShift) - Shl(MaxIntShift)
        ELSE 0

(***************************************************************************)
(* size_t in full width: <<l1, l2, l3, l4>> is l1*2^48 + l2*2^32 + l3*2^16 *)
(* + l4, every limb in 0..65535.                                           *)
(***************************************************************************)
\* the size_t of an integer of the model; for an int this is the conversion
\* of line 187 (sign extension)
SizeT(v) ==
    LET top == IF v < 0 THEN LimbBase - 1 ELSE 0
    IN  <<top, top, (v \div LimbBase) % LimbBase, v % LimbBase>>

\* a - b of two size_t, modulo 2^64
SizeTSub(a, b) ==
    LET d4 == a[4] - b[4]
        d3 == a[3] - b[3] - (IF d4 < 0 THEN 1 ELSE 0)
        d2 == a[2] - b[2] - (IF d3 < 0 THEN 1 ELSE 0)
        d1 == a[1] - b[1] - (IF d2 < 0 THEN 1 ELSE 0)
    IN  <<d1 % LimbBase, d2 % LimbBase, d3 % LimbBase, d4 % LimbBase>>

\* a > b of two size_t (unsigned)
SizeTGt(a, b) ==
    \E i \in 1..4 : a[i] > b[i] /\ \A j \in 1..(i - 1) : a[j] = b[j]

\* the integer of the model for a size_t within 2^31 of zero
SizeTInt(w) ==
    IF w[1] = 0 THEN w[3] * LimbBase + w[4]
    ELSE (w[3] - LimbBase) * LimbBase + w[4]

\* create_block, lines 187-188 once the shift overflows int
ShlOverflowSizes(n) ==
    { SizeTSub(SizeT(ShlOverflow(n)), SizeT(MEM_BLOCK_OVERHEAD)) }

(***************************************************************************)
(* The memory image: blocks and the cache, and whether an assert() other   *)
(* than the one of block_alloc has been violated on the way.               *)
(***************************************************************************)
EmptyCache ==
    [head |-> NULL, tail |-> NULL, root |-> NULL,
     num_blocks |-> 0, total_used |-> 0, total_avail |-> 0]

Mem(b, c, f) == [blk |-> b, c |-> c, fault |-> f]

\* the blocks met following next from `node`, at most `fuel` of them
RECURSIVE Walk(_, _, _)
Walk(blocks, node, fuel) ==
    IF node = NULL \/ fuel = 0 THEN <<>>
    ELSE <<node>> \o Walk(blocks, blocks[node].next, fuel - 1)

\* block_valid taking a neighbour of equal avail for a misplaced one
block_valid_strict(m, b) ==
    LET B == m.blk[b] IN
    /\ ~(B.prev # NULL /\ ~UGt(m.blk[B.prev].avail, B.avail))
    /\ ~(B.next # NULL /\ ~ULt(m.blk[B.next].avail, B.avail))

\* block_valid without the comparison against next
block_valid_prev_only(m, b) ==
    LET B == m.blk[b] IN
    ~(B.prev # NULL /\ ULt(m.blk[B.prev].avail, B.avail))

\* block_valid: the block is no larger than prev and no smaller than next
block_valid(m, b) ==
    LET B == m.blk[b] IN
    /\ ~(B.prev # NULL /\ ULt(m.blk[B.prev].avail, B.avail))
    /\ ~(B.next # NULL /\ UGt(m.blk[B.next].avail, B.avail))

\* block_alloc: bump allocation; the assertion is checked by the caller
block_alloc(m, b, size) ==
    [m EXCEPT !.blk[b].used = @ + size, !.blk[b].avail = @ - size]

\* the loop of cache_insert stopping at a node of equal avail too
RECURSIVE InsertPointBeforeEqual(_, _, _)
InsertPointBeforeEqual(blocks, node, b) ==
    IF node = NULL THEN NULL
    ELSE IF UGe(blocks[b].avail, blocks[node].avail) THEN node
    ELSE InsertPointBeforeEqual(blocks, blocks[node].next, b)

\* the while loop of cache_insert: first node whose avail is below b's
RECURSIVE InsertPoint(_, _, _)
InsertPoint(blocks, node, b) ==
    IF node = NULL THEN NULL
    ELSE IF UGt(blocks[b].avail, blocks[node].avail) THEN node
    ELSE InsertPoint(blocks, blocks[node].next, b)

cache_insert(m, b) ==
    IF m.c.head = NULL
    THEN Mem([m.blk EXCEPT ![b].prev = NULL, ![b].next = NULL],
             [m.c EXCEPT !.num_blocks = 1,
                         !.total_used = m.blk[b].used,
                         !.total_avail = m.blk[b].avail,
                         !.head = b, !.tail = b, !.root = b],
             m.fault \/ ~(/\ m.c.num_blocks = 0 /\ m.c.total_used = 0
                          /\ m.c.total_avail = 0 /\ m.c.tail = NULL
                          /\ m.c.root = NULL))
    ELSE
      LET node == InsertPoint(m.blk, m.c.head, b)
          np == IF node = NULL THEN NULL ELSE m.blk[node].prev
          linked ==
            IF node # NULL
            THEN LET b1 == [m.blk EXCEPT ![b].prev = np, ![b].next = node]
                     b2 == IF m.c.head = node \/ np = NULL THEN b1
                           ELSE [b1 EXCEPT ![np].next = b]
                 IN  [b2 EXCEPT ![node].prev = b]
            ELSE LET b1 == [m.blk EXCEPT ![b].prev = m.c.tail, ![b].next = NULL]
                 IN  IF m.c.tail = NULL THEN b1
                     ELSE [b1 EXCEPT ![m.c.tail].next = b]
          newhead == IF node # NULL /\ m.c.head = node THEN b ELSE m.c.head
          newtail == IF node = NULL THEN b ELSE m.c.tail
          bad == \/ m.c.tail = NULL
                 \/ node # NULL /\ ((m.c.head = node) # (np = NULL))
      IN  Mem(linked,
              [m.c EXCEPT !.head = newhead, !.tail = newtail,
                          !.num_blocks = @ + 1,
                          !.total_used = @ + m.blk[b].used,
                          !.total_avail = @ + m.blk[b].avail],
              m.fault \/ bad)

\* cache_remove forgetting to repair the back link of the successor
cache_remove_no_back_link(m, b) ==
    LET B == m.blk[b]
        is_head == m.c.head = b
        is_tail == m.c.tail = b
        b1 == IF B.prev # NULL THEN [m.blk EXCEPT ![B.prev].next = B.next] ELSE m.blk
        t1 == IF B.prev # NULL /\ is_tail THEN B.prev ELSE m.c.tail
        h1 == IF B.next # NULL /\ is_head THEN B.next ELSE m.c.head
    IN  Mem(b1,
            [m.c EXCEPT !.head = h1, !.tail = t1, !.num_blocks = @ - 1],
            m.fault)

\* cache_remove taking prev for next when it moves head
cache_remove_head_prev(m, b) ==
    LET B == m.blk[b]
        is_head == m.c.head = b
        is_tail == m.c.tail = b
        b1 == IF B.prev # NULL THEN [m.blk EXCEPT ![B.prev].next = B.next] ELSE m.blk
        t1 == IF B.prev # NULL /\ is_tail THEN B.prev ELSE m.c.tail
        b2 == IF B.next # NULL THEN [b1 EXCEPT ![B.next].prev = B.prev] ELSE b1
        h1 == IF B.next # NULL /\ is_head THEN B.prev ELSE m.c.head
    IN  Mem(b2,
            [m.c EXCEPT !.head = h1, !.tail = t1, !.num_blocks = @ - 1],
            m.fault)

cache_remove(m, b) ==
    LET B == m.blk[b]
        is_head == m.c.head = b
        is_tail == m.c.tail = b
        b1 == IF B.prev # NULL THEN [m.blk EXCEPT ![B.prev].next = B.next] ELSE m.blk
        t1 == IF B.prev # NULL /\ is_tail THEN B.prev ELSE m.c.tail
        b2 == IF B.next # NULL THEN [b1 EXCEPT ![B.next].prev = B.prev] ELSE b1
        h1 == IF B.next # NULL /\ is_head THEN B.next ELSE m.c.head
        bad == \/ B.prev # NULL /\ is_head
               \/ B.next # NULL /\ t1 = b
    IN  Mem(b2,
            [m.c EXCEPT !.head = h1, !.tail = t1, !.num_blocks = @ - 1],
            m.fault \/ bad)

\* cache_find comparing with > where the code compares with >=
RECURSIVE FindFromStrict(_, _, _, _)
FindFromStrict(blocks, block, size, retval) ==
    IF block = NULL THEN retval
    ELSE IF UGt(blocks[block].avail, size)
         THEN FindFromStrict(blocks, blocks[block].next, size, block)
         ELSE retval

cache_find_strict(m, size) == FindFromStrict(m.blk, m.c.head, size, NULL)

\* cache_find stopping at the first block that fits (first fit)
cache_find_first(m, size) ==
    IF m.c.head # NULL /\ UGe(m.blk[m.c.head].avail, size) THEN m.c.head ELSE NULL

\* the while loop of cache_find: last block from `block` on with avail >= size
RECURSIVE FindFrom(_, _, _, _)
FindFrom(blocks, block, size, retval) ==
    IF block = NULL THEN retval
    ELSE IF UGe(blocks[block].avail, size)
         THEN FindFrom(blocks, blocks[block].next, size, block)
         ELSE retval

cache_find(m, size) == FindFrom(m.blk, m.c.head, size, NULL)

(***************************************************************************)
(* Block provisioning.                                                     *)
(***************************************************************************)
\* create_block, the size computed before the oversize override
TargetSizes(n) ==
    IF n <= MaxIntShift THEN { SizeT(Shl(n) - MEM_BLOCK_OVERHEAD) }
    ELSE ShlOverflowSizes(n)

\* create_block, the sizes it may ask of the backend for a request of min_size
BlockSizes(n, min_size) ==
    { IF SizeTGt(SizeT(min_size), s) THEN SizeT(min_size) ELSE s : s \in TargetSizes(n) }

\* create_block, the block initialised in the buffer of `size` bytes
NewBlock(size) ==
    [used |-> SizeofMemBlock, avail |-> size - SizeofMemBlock,
     prev |-> NULL, next |-> NULL, cap |-> size]

\* the root block with the context left out of used
RootBlockNoContext(size) ==
    [used |-> SizeofMemBlock, avail |-> size - (SizeofPtab + SizeofMemBlock),
     prev |-> NULL, next |-> NULL, cap |-> size]

\* mem_init, the root block carved behind the context
RootBlock(size) ==
    [used |-> SizeofPtab + SizeofMemBlock,
     avail |-> size - (SizeofPtab + SizeofMemBlock),
     prev |-> NULL, next |-> NULL, cap |-> size]

\* the backend may refuse any request, and has no buffer of 2^63 bytes or
\* more to return (malloc refuses what is above PTRDIFF_MAX)
BackendAnswers(size) ==
    IF size[1] < LimbBase \div 2 THEN BOOLEAN ELSE {FALSE}

(***************************************************************************)
(* What a call leaves in `last`.                                           *)
(***************************************************************************)
NoCall ==
    [op |-> "none", ctx |-> FALSE, size |-> 0, ret |-> "none",
     found |-> NULL, asked |-> <<>>, acquired |-> FALSE, nblocks |-> 0, served |-> NULL,
     off |-> 0, precond |-> TRUE, reorder |-> FALSE, fault |-> FALSE,
     \* at the cache_remove of a reorder: the links of the removed block, and
     \* head and tail once cache_remove has returned
     removed |-> [prev |-> NULL, next |-> NULL, head |-> NULL, tail |-> NULL,
                  list |-> <<>>]]

(***************************************************************************)
(* mem_init                                                                *)
(***************************************************************************)
MemInitSize == MEM_BLOCK_SIZE - MEM_BLOCK_OVERHEAD

\* what the root block has used and has available when mem_init returns
RootUsed == RootBlock(MemInitSize).used
RootAvail == RootBlock(MemInitSize).avail

mem_init ==
    /\ status = "uninit"
    /\ ninit < MaxInitFails
    /\ \E ok \in BackendAnswers(SizeT(MemInitSize)) :
         LET call == [NoCall EXCEPT !.op = "mem_init", !.ctx = TRUE,
                                    !.size = 0, !.asked = <<SizeT(MemInitSize)>>,
                                    !.acquired = ok]
         IN  IF ~ok
             THEN /\ last' = [call EXCEPT !.ret = "null"]
                  /\ UNCHANGED <<status, blk, cache>>
             ELSE LET m0 == Mem(<<RootBlock(MemInitSize)>>, EmptyCache, FALSE)
                      m1 == cache_insert(m0, 1)
                      c2 == [m1.c EXCEPT !.root = 1]
                  IN  /\ blk' = m1.blk
                      /\ cache' = c2
                      /\ status' = IF m1.fault /\ ~ndebug THEN "aborted" ELSE "live"
                      /\ last' = [call EXCEPT
                                    !.ret = IF m1.fault /\ ~ndebug THEN "abort" ELSE "ctx",
                                    !.served = 1, !.fault = m1.fault]
    /\ ninit' = ninit + 1
    /\ UNCHANGED <<ndebug, allocs, nacq, ncalls, sumreq>>

(***************************************************************************)
(* mem_alloc                                                               *)
(***************************************************************************)
\* mem_alloc removing a misplaced block without inserting it again
Serve_no_reinsert(m, b, size, call) ==
    LET precond == UGe(m.blk[b].avail, size)
        m1 == block_alloc(m, b, size)
        valid == block_valid(m1, b)
        m2 == IF valid THEN m1 ELSE cache_remove(m1, b)
        done == [call EXCEPT !.served = b, !.off = m.blk[b].used,
                             !.precond = precond]
        rm == cache_remove(m1, b)
    IN  IF ~precond /\ ~ndebug
        THEN \* assert(b->avail >= size) stops the process
             /\ blk' = m.blk
             /\ cache' = m.c
             /\ status' = "aborted"
             /\ allocs' = allocs
             /\ last' = [done EXCEPT !.ret = "abort"]
        ELSE /\ blk' = m2.blk
             /\ cache' = m2.c
             /\ status' = IF m2.fault /\ ~ndebug THEN "aborted" ELSE "live"
             /\ allocs' = IF m2.fault /\ ~ndebug THEN allocs
                          ELSE Append(allocs, [blk |-> b, off |-> m.blk[b].used,
                                               size |-> size])
             /\ last' = [done EXCEPT
                           !.ret = IF m2.fault /\ ~ndebug THEN "abort" ELSE "addr",
                           !.reorder = ~valid, !.fault = m2.fault,
                           !.removed = IF valid THEN @
                                       ELSE [prev |-> m1.blk[b].prev,
                                             next |-> m1.blk[b].next,
                                             head |-> rm.c.head,
                                             tail |-> rm.c.tail,
                                             list |-> Walk(rm.blk, rm.c.head,
                                                           Len(rm.blk))]]

\* lines 237-256: the allocation from `b` and the reorder check
Serve(m, b, size, call) ==
    LET precond == UGe(m.blk[b].avail, size)
        m1 == block_alloc(m, b, size)
        valid == block_valid(m1, b)
        m2 == IF valid THEN m1 ELSE cache_insert(cache_remove(m1, b), b)
        done == [call EXCEPT !.served = b, !.off = m.blk[b].used,
                             !.precond = precond]
        rm == cache_remove(m1, b)
    IN  IF ~precond /\ ~ndebug
        THEN \* assert(b->avail >= size) stops the process
             /\ blk' = m.blk
             /\ cache' = m.c
             /\ status' = "aborted"
             /\ allocs' = allocs
             /\ last' = [done EXCEPT !.ret = "abort"]
        ELSE /\ blk' = m2.blk
             /\ cache' = m2.c
             /\ status' = IF m2.fault /\ ~ndebug THEN "aborted" ELSE "live"
             /\ allocs' = IF m2.fault /\ ~ndebug THEN allocs
                          ELSE Append(allocs, [blk |-> b, off |-> m.blk[b].used,
                                               size |-> size])
             /\ last' = [done EXCEPT
                           !.ret = IF m2.fault /\ ~ndebug THEN "abort" ELSE "addr",
                           !.reorder = ~valid, !.fault = m2.fault,
                           !.removed = IF valid THEN @
                                       ELSE [prev |-> m1.blk[b].prev,
                                             next |-> m1.blk[b].next,
                                             head |-> rm.c.head,
                                             tail |-> rm.c.tail,
                                             list |-> Walk(rm.blk, rm.c.head,
                                                           Len(rm.blk))]]

\* a failed create_block that had already counted the block
AcquireFailedCounted(call, asked) ==
    /\ last' = [call EXCEPT !.ret = "null", !.asked = <<asked>>]
    /\ cache' = [cache EXCEPT !.num_blocks = @ + 1]
    /\ UNCHANGED <<status, blk, allocs>>

\* lines 226-228: create_block returned NULL, and so does mem_alloc
AcquireFailed(call, asked) ==
    /\ last' = [call EXCEPT !.ret = "null", !.asked = <<asked>>]
    /\ UNCHANGED <<status, blk, cache, allocs>>

mem_alloc(size) ==
    /\ status = "live"
    /\ LET m0 == Mem(blk, cache, FALSE)
           found == cache_find(m0, size)
           call == [NoCall EXCEPT !.op = "mem_alloc", !.ctx = TRUE, !.size = size,
                                  !.found = found, !.nblocks = cache.num_blocks]
       IN  IF found # NULL
           THEN /\ Serve(m0, found, size, call)
                /\ nacq' = nacq
           ELSE \E asked \in BlockSizes(cache.num_blocks, size) :
                \E ok \in BackendAnswers(asked) :
                  /\ nacq' = nacq + 1
                  /\ IF ~ok
                     THEN AcquireFailed(call, asked)
                     ELSE LET b == Len(blk) + 1
                              m1 == Mem(Append(blk, NewBlock(SizeTInt(asked))), cache, FALSE)
                              m2 == cache_insert(m1, b)
                          IN  Serve(m2, b, size, [call EXCEPT !.asked = <<asked>>,
                                                                !.acquired = TRUE])
    /\ ncalls' = ncalls + 1
    /\ sumreq' = IF sumreq + size > RootAvail THEN RootAvail + 1
                  ELSE sumreq + size
    /\ UNCHANGED <<ndebug, ninit>>

\* mem_alloc(NULL, size) without the check of line 216: p->mem is read
\* through the null pointer and the process stops
mem_alloc_null_unchecked(size) ==
    /\ status # "aborted"
    /\ status' = "aborted"
    /\ last' = [NoCall EXCEPT !.op = "mem_alloc", !.ctx = FALSE, !.size = size,
                              !.ret = "abort"]
    /\ UNCHANGED <<ndebug, blk, cache, allocs, ninit, nacq, ncalls, sumreq>>

\* mem_alloc(NULL, size): line 216
mem_alloc_null(size) ==
    /\ status # "aborted"
    /\ last' = [NoCall EXCEPT !.op = "mem_alloc", !.ctx = FALSE, !.size = size,
                              !.ret = "null"]
    /\ UNCHANGED <<status, ndebug, blk, cache, allocs, ninit, nacq, ncalls, sumreq>>

(***************************************************************************)
(* The requests explored.                                                  *)
(***************************************************************************)
\* sizes around the decisions of mem_alloc in the current state
Sizes ==
    LET n == cache.num_blocks
        t == Shl(n) - MEM_BLOCK_OVERHEAD
        around == IF status = "live"
                  THEN { blk[cache.head].avail, blk[cache.head].avail + 1,
                         t - SizeofMemBlock, t - SizeofMemBlock + 1, t + 1 }
                  ELSE {}
    IN  { s \in {0, 100, 4000} \cup around : s >= 0 }

\* sizes that force a new block at every call without overflowing it
GrowSizes ==
    IF status = "live" /\ blk[cache.head].avail >= 0
    THEN { blk[cache.head].avail + 1 }
    ELSE { 0 }

Init ==
    /\ status = "uninit"
    /\ ndebug \in BOOLEAN
    /\ blk = <<>>
    /\ cache = EmptyCache
    /\ allocs = <<>>
    /\ ninit = 0
    /\ nacq = 0
    /\ ncalls = 0
    /\ sumreq = 0
    /\ last = NoCall

MemInit == mem_init
MemAlloc == ncalls < MaxAllocs /\ \E size \in Sizes : mem_alloc(size)
MemAllocNull == \E size \in {100} : mem_alloc_null(size)
MemAllocGrow == ncalls < MaxGrowCalls /\ \E size \in GrowSizes : mem_alloc(size)

Next == MemInit \/ MemAlloc \/ MemAllocNull
Spec == Init /\ [][Next]_vars

NextGrow == MemInit \/ MemAllocGrow \/ MemAllocNull
SpecGrow == Init /\ [][NextGrow]_vars

TypeOK ==
    /\ status \in {"uninit", "live", "aborted"}
    /\ ndebug \in BOOLEAN
    /\ ninit \in Nat /\ nacq \in Nat /\ ncalls \in Nat /\ sumreq \in Nat
    /\ cache.num_blocks \in Nat

(***************************************************************************)
(* The list as the code walks it.                                          *)
(***************************************************************************)
\* the blocks met following next from `node`, at most `fuel` of them
Chain(blocks, node, fuel) == Walk(blocks, node, fuel)

List == Chain(blk, cache.head, Len(blk) + 1)
Linked(b) == \E i \in 1..Len(List) : List[i] = b

RECURSIVE SumSizes(_)
SumSizes(q) == IF q = <<>> THEN 0 ELSE q[1].size + SumSizes(Tail(q))

\* used of block b when it was created
InitialUsed(b) == IF b = 1 THEN RootUsed ELSE SizeofMemBlock

RECURSIVE SumInitialUsed(_)
SumInitialUsed(n) == IF n = 0 THEN 0 ELSE InitialUsed(n) + SumInitialUsed(n - 1)

\* the last call was a mem_alloc on the live arena that went to create_block
LastCreated == last.op = "mem_alloc" /\ last.ctx /\ last.asked # <<>>

(***************************************************************************)
(* C1: after mem_init and after every mem_alloc, every linked block with a *)
(* successor has at least as many available bytes as its successor.        *)
(***************************************************************************)
C1_CacheSorted ==
    \A b \in 1..Len(blk) :
        (Linked(b) /\ blk[b].next # NULL)
            => UGe(blk[b].avail, blk[blk[b].next].avail)

\* a reorder has just moved a block in a cache of three blocks or more
C1_Witness ==
    /\ status = "live" /\ last.op = "mem_alloc" /\ last.reorder
    /\ cache.num_blocks >= 3 /\ Len(List) >= 3

(***************************************************************************)
(* C2: a request larger than the available bytes of every block gets one   *)
(* new block and is served from it, with a non-null address, whenever the  *)
(* backend acquire succeeds; it never faults because of its size.          *)
(***************************************************************************)
C2_OversizeServed ==
    (LastCreated /\ last.acquired) =>
        /\ last.ret = "addr"
        /\ last.served = Len(blk)
        /\ cache.num_blocks = last.nblocks + 1
        /\ last.off + last.size <= blk[last.served].cap

(***************************************************************************)
(* C3: every returned range lies inside the buffer of its block, behind    *)
(* the control fields and within the capacity, and overlaps no range       *)
(* returned earlier.                                                       *)
(***************************************************************************)
C3_RangesDisjointInBlock ==
    \A i \in 1..Len(allocs) :
        LET a == allocs[i] IN
        /\ a.off >= InitialUsed(a.blk)
        /\ a.off + a.size <= blk[a.blk].cap
        /\ \A j \in 1..(i - 1) :
             LET e == allocs[j] IN
             ~(/\ e.blk = a.blk /\ e.size > 0 /\ a.size > 0
               /\ e.off < a.off + a.size /\ a.off < e.off + e.size)

(***************************************************************************)
(* C4: total_used is the sum of the sizes of the successful requests plus  *)
(* the initial used value of every block created.                          *)
(***************************************************************************)
C4_TotalUsedIsSum ==
    status = "live" =>
        cache.total_used = SumSizes(allocs) + SumInitialUsed(Len(blk))

(***************************************************************************)
(* C5: a mem_alloc that finds no block and whose backend acquire fails     *)
(* returns null and leaves the blocks and the cache as they were.          *)
(***************************************************************************)
C5_FailedAcquireKeepsCache ==
    [][ (ncalls' = ncalls + 1 /\ last'.found = NULL /\ ~last'.acquired)
            => (/\ last'.ret = "null"
                /\ blk' = blk
                /\ cache' = cache
                /\ status' = status) ]_vars

\* such a call has just returned on an arena of two blocks or more
C5_Witness ==
    /\ LastCreated /\ ~last.acquired /\ last.ret = "null"
    /\ cache.num_blocks >= 2 /\ last.size > 0

(***************************************************************************)
(* C6: mem_init returns null exactly when the backend acquire fails; else  *)
(* the context is live and its cache holds one block that is head, tail    *)
(* and root, with num_blocks = 1 and used + avail = 4096 - 32.             *)
(***************************************************************************)
C6_MemInitResult ==
    last.op = "mem_init" =>
        /\ (last.ret = "null") = ~last.acquired
        /\ last.ret = "null" => (status = "uninit" /\ blk = <<>>)
        /\ last.acquired =>
             /\ last.ret = "ctx" /\ status = "live"
             /\ Len(blk) = 1 /\ cache.num_blocks = 1
             /\ cache.head = 1 /\ cache.tail = 1 /\ cache.root = 1
             /\ blk[1].prev = NULL /\ blk[1].next = NULL
             /\ blk[1].used + blk[1].avail = MEM_BLOCK_SIZE - MEM_BLOCK_OVERHEAD
             /\ blk[1].avail >= 0

\* mem_init has just succeeded
C6_Witness ==
    /\ last.op = "mem_init" /\ last.ret = "ctx" /\ last.acquired
    /\ status = "live" /\ ninit >= 1

(***************************************************************************)
(* C7: while the sizes requested since mem_init sum to at most the root    *)
(* block's initial avail, every request is served from the root block:     *)
(* one block, root.used up by the sum, root.avail down by the sum, and no  *)
(* backend acquire by mem_alloc.                                           *)
(***************************************************************************)
C7_ServedFromRoot ==
    (status # "uninit" /\ sumreq <= RootAvail) =>
        /\ status = "live"
        /\ cache.num_blocks = 1 /\ Len(blk) = 1
        /\ Len(allocs) = ncalls
        /\ \A i \in 1..Len(allocs) : allocs[i].blk = cache.root
        /\ blk[cache.root].used = RootUsed + sumreq
        /\ blk[cache.root].avail = RootAvail - sumreq
        /\ nacq = 0

\* three requests, 150 bytes or more in all, the last filling the root block
C7_Witness ==
    /\ status = "live" /\ ncalls >= 3 /\ sumreq = RootAvail
    /\ last.op = "mem_alloc" /\ last.size > 0 /\ last.size < RootAvail - 100

(***************************************************************************)
(* C8: with N blocks in the cache and a request no larger than the target, *)
(* the size asked of the backend is (4096 << N) - 32, for every N (the     *)
(* root block being N = 0).                                                *)
(***************************************************************************)
\* (4096 << n) - 32 in the integers
DoublingSize(n) ==
    MEM_BLOCK_SIZE * (Pow2(n) - 1) + (MEM_BLOCK_SIZE - MEM_BLOCK_OVERHEAD)

C8_DoublingSequence ==
    /\ (last.op = "mem_init") => last.asked = <<SizeT(DoublingSize(0))>>
    /\ (LastCreated /\ last.size <= DoublingSize(last.nblocks))
            => last.asked = <<SizeT(DoublingSize(last.nblocks))>>

(***************************************************************************)
(* C9: mem_alloc with a null context returns null, makes no backend call   *)
(* and changes nothing of the arena.                                       *)
(***************************************************************************)
C9_NullContext ==
    [][ (last'.op = "mem_alloc" /\ ~last'.ctx)
            => (/\ last'.ret = "null"
                /\ last'.asked = <<>>
                /\ UNCHANGED <<status, blk, cache, allocs, ninit, nacq>>) ]_vars

\* such a call has just returned while an arena of several blocks is live
C9_Witness ==
    /\ last.op = "mem_alloc" /\ ~last.ctx /\ last.ret = "null"
    /\ status = "live" /\ cache.num_blocks >= 2

(***************************************************************************)
(* C10: every block_alloc made by mem_alloc meets avail >= size, for a     *)
(* block found by cache_find and for one just created and inserted.        *)
(***************************************************************************)
C10_BlockAllocPrecondition ==
    (last.op = "mem_alloc" /\ last.served # NULL) => last.precond

(***************************************************************************)
(* Requests and blocks tried on the reachable caches.                      *)
(***************************************************************************)
\* the set of linked blocks
LinkedSet == { List[i] : i \in 1..Len(List) }

\* sizes at and just above the avail of every block, and the requests explored
ProbeSizes ==
    Sizes \cup UNION { { blk[b].avail, blk[b].avail + 1 } : b \in 1..Len(blk) }

(***************************************************************************)
(* C11: on the (sorted) cache, cache_find(size) returns a linked block     *)
(* with avail >= size whose avail is the least among the linked blocks     *)
(* with avail >= size, the last such block in list order; it returns none  *)
(* exactly when no linked block has avail >= size.                         *)
(***************************************************************************)
C11_FindSmallestFit ==
    status = "live" =>
        LET q == List IN
        \A size \in ProbeSizes :
            LET f == cache_find(Mem(blk, cache, FALSE), size)
                fits == { i \in 1..Len(q) : UGe(blk[q[i]].avail, size) }
            IN  /\ (f = NULL) = (fits = {})
                /\ f # NULL =>
                     /\ \E i \in fits : q[i] = f
                     /\ \A i \in fits : UGe(blk[q[i]].avail, blk[f].avail)
                     /\ \A i \in fits : \E j \in fits : j >= i /\ q[j] = f

\* the last call searched the cache, and in a cache of three blocks or more
\* some request is answered by a block that is neither head nor tail, some
\* other by none
C11_Witness ==
    /\ status = "live" /\ last.op = "mem_alloc" /\ last.found # NULL
    /\ cache.num_blocks >= 3
    /\ \E size \in ProbeSizes :
         LET f == cache_find(Mem(blk, cache, FALSE), size)
         IN  f # NULL /\ f # cache.head /\ f # cache.tail
    /\ \E size \in ProbeSizes : cache_find(Mem(blk, cache, FALSE), size) = NULL

(***************************************************************************)
(* C12: total_avail is the sum of avail over the linked blocks, and        *)
(* total_used the sum of their used.                                       *)
(***************************************************************************)
RECURSIVE SumField(_, _)
SumField(q, avail) ==
    IF q = <<>> THEN 0
    ELSE (IF avail THEN blk[q[1]].avail ELSE blk[q[1]].used)
         + SumField(Tail(q), avail)

C12_TotalsMirrorBlocks ==
    status = "live" =>
        /\ cache.total_avail = SumField(List, TRUE)
        /\ cache.total_used = SumField(List, FALSE)

(***************************************************************************)
(* C13: cache_insert on a non-empty sorted cache puts the block right      *)
(* before the first block whose avail is strictly below its own, so after  *)
(* every block of equal avail, or at the tail when there is none; head and *)
(* tail follow and the list stays sorted.                                  *)
(***************************************************************************)
\* index in the list q (of blocks of `blocks`) of the first block with avail
\* below a, or one past the end
RECURSIVE FirstBelow(_, _, _, _)
FirstBelow(blocks, q, a, i) ==
    IF i > Len(q) THEN i
    ELSE IF ULt(blocks[q[i]].avail, a) THEN i
    ELSE FirstBelow(blocks, q, a, i + 1)

InsertAt(q, i, b) == SubSeq(q, 1, i - 1) \o <<b>> \o SubSeq(q, i, Len(q))

Without(q, b) == SelectSeq(q, LAMBDA x : x # b)

\* the cache of m links exactly the blocks of q, in that order, sorted
LinksExactly(m, q) ==
    /\ Chain(m.blk, m.c.head, Len(m.blk) + 1) = q
    /\ m.c.head = q[1] /\ m.c.tail = q[Len(q)]
    /\ m.blk[q[1]].prev = NULL /\ m.blk[q[Len(q)]].next = NULL
    /\ \A i \in 1..(Len(q) - 1) :
         /\ m.blk[q[i + 1]].prev = q[i]
         /\ UGe(m.blk[q[i]].avail, m.blk[q[i + 1]].avail)

\* a block just created with avail a, inserted into the current cache
InsertsNewInPlace(q, a) ==
    LET b == Len(blk) + 1
        m0 == Mem(Append(blk, NewBlock(a + SizeofMemBlock)), cache, FALSE)
        m1 == cache_insert(m0, b)
    IN  /\ LinksExactly(m1, InsertAt(q, FirstBelow(m0.blk, q, a, 1), b))
        /\ m1.c.num_blocks = cache.num_blocks + 1
        /\ ~m1.fault

\* linked block b after an allocation of d bytes, when that calls for a reorder
ReinsertsInPlace(q, b, d) ==
    LET m1 == block_alloc(Mem(blk, cache, FALSE), b, d)
    IN  (UGe(blk[b].avail, d) /\ ~block_valid(m1, b)) =>
            LET rest == Without(q, b)
                m2 == cache_insert(cache_remove(m1, b), b)
            IN  /\ LinksExactly(m2, InsertAt(rest,
                                    FirstBelow(m1.blk, rest, m1.blk[b].avail, 1), b))
                /\ m2.c.num_blocks = cache.num_blocks
                /\ ~m2.fault

C13_InsertPosition ==
    status = "live" =>
        LET q == List
            probes == ProbeSizes
        IN  /\ \A a \in probes : InsertsNewInPlace(q, a)
            /\ \A i \in 1..Len(q) : \A d \in probes : ReinsertsInPlace(q, q[i], d)

\* the last call reinserted its block, in a cache of three blocks or more,
\* behind a block of equal avail
C13_Witness ==
    /\ status = "live" /\ last.op = "mem_alloc" /\ last.reorder
    /\ cache.num_blocks >= 3
    /\ blk[last.served].prev # NULL
    /\ blk[blk[last.served].prev].avail = blk[last.served].avail

(***************************************************************************)
(* C14: for every block, in every state, used + avail is the capacity      *)
(* acquired from the backend; across every operation used does not         *)
(* decrease and avail does not increase.                                   *)
(***************************************************************************)
\* block b of capacity cap as its creation left it
AsCreated(b, cap) == IF b = 1 THEN RootBlock(cap) ELSE NewBlock(cap)

C14_BlockAccounting ==
    [][ \A b \in 1..Len(blk') :
          LET old == IF b <= Len(blk) THEN blk[b]
                     ELSE AsCreated(b, blk'[b].cap)
          IN  /\ blk'[b].used + blk'[b].avail = blk'[b].cap
              /\ old.used + old.avail = old.cap
              /\ blk'[b].cap = old.cap
              /\ UGe(blk'[b].used, old.used)
              /\ UGe(old.avail, blk'[b].avail) ]_vars

(***************************************************************************)
(* C15: a successful mem_alloc(size) changes used and avail of one block   *)
(* only: used grows by size, avail shrinks by size, and the address        *)
(* returned is the block's buffer plus its used before the allocation;     *)
(* used and avail of every other block stay as they were.  avail is a      *)
(* size_t: it shrinks by size when the block had size bytes available and  *)
(* the new value is the old one minus size, not when the subtraction wraps *)
(* around to a larger value.                                               *)
(***************************************************************************)
C15_OneBlockBumped ==
    [][ (ncalls' = ncalls + 1 /\ last'.ret = "addr") =>
          LET b == last'.served
              old == IF b <= Len(blk) THEN blk[b] ELSE AsCreated(b, blk'[b].cap)
          IN  /\ b \in 1..Len(blk')
              /\ Len(blk') \in {Len(blk), b}
              /\ blk'[b].used = old.used + last'.size
              /\ UGe(old.avail, last'.size)
              /\ blk'[b].avail = old.avail - last'.size
              /\ UGe(old.avail, blk'[b].avail)
              /\ last'.off = old.used
              /\ allocs' = Append(allocs, [blk |-> b, off |-> old.used,
                                           size |-> last'.size])
              /\ \A c \in 1..Len(blk) :
                   c # b => /\ blk'[c].used = blk[c].used
                            /\ blk'[c].avail = blk[c].avail ]_vars

(***************************************************************************)
(* C16: the cache_remove of a reorder is followed, before mem_alloc        *)
(* returns, by the cache_insert of the same block: the call returns with   *)
(* the block linked again and num_blocks as it was before the reorder.     *)
(***************************************************************************)
C16_RemoveThenReinsert ==
    [][ (ncalls' = ncalls + 1 /\ last'.reorder) =>
          /\ last'.ret = "addr"
          /\ cache'.num_blocks
               = cache.num_blocks + (IF last'.acquired THEN 1 ELSE 0)
          /\ \E i \in 1..Len(List') : List'[i] = last'.served
          /\ Len(List') = cache'.num_blocks ]_vars

\* a block found in the cache has just been removed from before its
\* successor and inserted again
C16_Witness ==
    /\ status = "live" /\ last.op = "mem_alloc" /\ last.reorder
    /\ last.found # NULL /\ last.removed.next # NULL
    /\ cache.num_blocks = last.nblocks /\ last.nblocks >= 2
    /\ Linked(last.served)

(***************************************************************************)
(* C17: after mem_init and after every mem_alloc the list is well formed:  *)
(* head.prev and tail.next are unset, b.next.prev = b for every linked     *)
(* block with a successor, the walk from head meets every linked block     *)
(* once and ends at tail, and num_blocks is the number of blocks met.      *)
(***************************************************************************)
C17_ListWellFormed ==
    status # "uninit" =>
        LET q == List IN
        /\ cache.head # NULL /\ cache.tail # NULL
        /\ blk[cache.head].prev = NULL
        /\ blk[cache.tail].next = NULL
        /\ Len(q) >= 1 /\ q[1] = cache.head /\ q[Len(q)] = cache.tail
        /\ \A i \in 1..(Len(q) - 1) : blk[q[i + 1]].prev = q[i]
        /\ \A i, j \in 1..Len(q) : q[i] = q[j] => i = j
        /\ Len(q) = cache.num_blocks

\* a block has just been taken from the middle of the list and linked again
C17_Witness ==
    /\ status = "live" /\ last.op = "mem_alloc" /\ last.reorder
    /\ last.removed.prev # NULL /\ last.removed.next # NULL
    /\ cache.num_blocks >= 3

(***************************************************************************)
(* C18: once the arena is live the cache is never empty and root is the    *)
(* block mem_init created: no later mem_alloc takes the empty-cache branch *)
(* of cache_insert or reassigns root, and root stays linked.               *)
(***************************************************************************)
C18_RootStays ==
    status # "uninit" =>
        /\ cache.head # NULL /\ cache.num_blocks >= 1
        /\ cache.root = 1
        /\ Linked(cache.root)
        /\ cache.num_blocks = Len(blk)

\* the head, another block than root, has just been removed and inserted
\* again
C18_Witness ==
    /\ status = "live" /\ last.op = "mem_alloc" /\ last.reorder
    /\ last.removed.prev = NULL /\ last.served # cache.root
    /\ cache.num_blocks >= 2 /\ ncalls >= 2

(***************************************************************************)
(* C19: mem_alloc with size 0 on a live arena makes no backend call, is    *)
(* served from the tail block, returns a non-null address, and leaves the  *)
(* blocks and the cache exactly as they were.                              *)
(***************************************************************************)
C19_ZeroSize ==
    [][ (ncalls' = ncalls + 1 /\ last'.size = 0) =>
          /\ last'.ret = "addr"
          /\ last'.served = cache.tail
          /\ last'.asked = <<>> /\ nacq' = nacq
          /\ ~last'.reorder
          /\ blk' = blk
          /\ cache' = cache
          /\ status' = status ]_vars

\* a request of 0 bytes has just been served by the exhausted tail of a
\* cache of two blocks or more
C19_Witness ==
    /\ status = "live" /\ last.op = "mem_alloc" /\ last.ctx /\ last.size = 0
    /\ last.ret = "addr" /\ cache.num_blocks >= 2
    /\ last.served = cache.tail /\ blk[cache.tail].avail = 0

(***************************************************************************)
(* C20: cache_remove is only called on a block that has a successor, never *)
(* on the tail or on the only block; when it returns, head and tail are    *)
(* blocks still linked and neither is the removed block.                   *)
(***************************************************************************)
C20_RemoveHasSuccessor ==
    (last.op = "mem_alloc" /\ last.reorder) =>
        LET r == last.removed IN
        /\ r.next # NULL
        /\ Len(r.list) >= 1
        /\ r.head = r.list[1] /\ r.tail = r.list[Len(r.list)]
        /\ r.head # last.served /\ r.tail # last.served
        /\ \A i \in 1..Len(r.list) : r.list[i] # last.served

\* the head has just been removed from a cache of two blocks, leaving one
C20_Witness ==
    /\ last.op = "mem_alloc" /\ last.reorder
    /\ last.removed.prev = NULL /\ last.removed.next # NULL
    /\ Len(last.removed.list) = 1 /\ cache.num_blocks = 2

====
